---- MODULE Spec2Model ----
(***************************************************************************)
(* Model of the licitacoes query service (src/main.py): the in-memory      *)
(* filter / sort / paginate engine, the PNCP normalizer and its mapping    *)
(* tables, the outbound calls to the two upstream sources and the          *)
(* endpoints built from them.                                              *)
(*                                                                         *)
(* Python values are modelled as follows.                                  *)
(*   str      a tuple of one-character strings; the four accented letters  *)
(*            of the mock data are written a_acute, a_tilde, c_cedil,      *)
(*            i_acute (and A_acute, ... for their upper-case forms).       *)
(*   date     the integer yyyymmdd, which orders as dates do.              *)
(*   float    an integer (every amount in the source is integral).         *)
(*   None     the record PyNone; an optional argument is PyNone or         *)
(*            Some(v).                                                     *)
(*   JSON     a tagged record: JNull, JNum(n), JStr(s), JArr(seq),         *)
(*            JObj(f) with f a function from key names to JSON values.     *)
(*   dict     a TLA+ record; an absent key is absent from its DOMAIN.      *)
(***************************************************************************)
EXTENDS Integers, Sequences, FiniteSets, TLC

VARIABLES
    MOCK_LICITACOES,  \* the module-level list of mock records
    pc,               \* position of the request being served
    req,              \* parameters of the request being served
    upstream,         \* what each upstream source answered to this request
    resp,             \* the response last produced by an endpoint
    chamadas,         \* outbound calls issued while serving this request
    chamada           \* last direct call of a helper: function, arguments, result

vars == <<MOCK_LICITACOES, pc, req, upstream, resp, chamadas, chamada>>

-----------------------------------------------------------------------------
(* Bounds of the model *)

\* longest record collection handed to filtrar_licitacoes
MaxLen == 2
\* largest offset handed to filtrar_licitacoes
MaxOffset == 2
\* largest limite handed to filtrar_licitacoes
MaxLimite == 2

-----------------------------------------------------------------------------
(* Python values *)

PyNone == [t |-> "None"]
Some(v) == [t |-> "Some", v |-> v]
IsNone(x) == x.t = "None"

Min(a, b) == IF a <= b THEN a ELSE b
Max(a, b) == IF a >= b THEN a ELSE b

\* str.lower() / str.upper(): the cased characters the model uses, pairwise
UpperChars ==
    <<"A","B","C","D","E","F","G","H","I","J","K","L","M","N","O","P","Q","R",
      "S","T","U","V","W","X","Y","Z","A_acute","A_tilde","C_cedil","I_acute">>
LowerChars ==
    <<"a","b","c","d","e","f","g","h","i","j","k","l","m","n","o","p","q","r",
      "s","t","u","v","w","x","y","z","a_acute","a_tilde","c_cedil","i_acute">>

\* the two tables as maps, built once
LowerMap ==
    [c \in {UpperChars[i] : i \in 1..Len(UpperChars)} |->
        LowerChars[CHOOSE i \in 1..Len(UpperChars) : UpperChars[i] = c]]
UpperMap ==
    [c \in {LowerChars[i] : i \in 1..Len(LowerChars)} |->
        UpperChars[CHOOSE i \in 1..Len(LowerChars) : LowerChars[i] = c]]

\* a character without a cased counterpart is left as it is
LowerChar(c) == IF c \in DOMAIN LowerMap THEN LowerMap[c] ELSE c
UpperChar(c) == IF c \in DOMAIN UpperMap THEN UpperMap[c] ELSE c

lower(s) == [i \in 1..Len(s) |-> LowerChar(s[i])]
upper(s) == [i \in 1..Len(s) |-> UpperChar(s[i])]

\* Python's `sub in s` on strings
StrIn(sub, s) ==
    \E i \in 0..(Len(s) - Len(sub)) : SubSeq(s, i + 1, i + Len(sub)) = sub

\* code-point order of the characters that occur in a sort key
CodePoints ==
    <<" ","-","/","0","1","2","3","4","5","6","7","8","9",
      "A","B","C","D","E","F","G","H","I","J","K","L","M","N","O","P","Q","R",
      "S","T","U","V","W","X","Y","Z",
      "a","b","c","d","e","f","g","h","i","j","k","l","m","n","o","p","q","r",
      "s","t","u","v","w","x","y","z",
      "A_acute","A_tilde","C_cedil","I_acute",
      "a_acute","a_tilde","c_cedil","i_acute">>

Ord(c) == CHOOSE i \in 1..Len(CodePoints) : CodePoints[i] = c

\* Python's s1 < s2 on strings: lexicographic by code point
StrLess(s1, s2) ==
    \E k \in 1..(Min(Len(s1), Len(s2)) + 1) :
        /\ \A j \in 1..(k - 1) : s1[j] = s2[j]
        /\ \/ k = Len(s1) + 1 /\ k <= Len(s2)
           \/ k <= Len(s1) /\ k <= Len(s2) /\ Ord(s1[k]) < Ord(s2[k])

\* Mutant of Slice: the end index taken as inclusive
SliceInclusivo(seq, lo, hi) == SubSeq(seq, lo + 1, Min(hi + 1, Len(seq)))

\* Python's seq[lo:hi] for 0 <= lo
Slice(seq, lo, hi) == SubSeq(seq, lo + 1, Min(hi, Len(seq)))

-----------------------------------------------------------------------------
(* Enumerations *)

TipoLicitacao ==
    {"convite", "tomada_precos", "concorrencia", "pregao", "concurso",
     "leilao", "rdc", "consulta_publica"}

StatusLicitacao ==
    {"aberta", "em_andamento", "encerrada", "suspensa", "cancelada"}

UF ==
    {"AC","AL","AP","AM","BA","CE","DF","ES","GO","MA","MT","MS","MG","PA",
     "PB","PR","PE","PI","RJ","RN","RS","RO","RR","SC","SP","SE","TO"}

-----------------------------------------------------------------------------
(* The mock dataset.  modalidade_participacao, link_edital, created_at and *)
(* updated_at are left out: nothing in the service reads them.             *)

Valor(n) == [t |-> "num", v |-> n]
ValorNone == [t |-> "None"]

MockInicial ==
    << [id |-> 1,
        numero |-> <<"0","0","1","/","2","0","2","4">>,
        tipo |-> "pregao",
        objeto |-> <<"A","q","u","i","s","i","c_cedil","a_tilde","o"," ","d","e"," ","e","q","u","i","p","a","m","e","n","t","o","s"," ","d","e"," ","i","n","f","o","r","m","a_acute","t","i","c","a">>,
        orgao |-> <<"P","r","e","f","e","i","t","u","r","a"," ","M","u","n","i","c","i","p","a","l"," ","d","e"," ","S","a_tilde","o"," ","P","a","u","l","o">>,
        status |-> "aberta",
        valor_estimado |-> Valor(150000),
        data_abertura |-> 20241015,
        data_encerramento |-> 20241115,
        uf |-> "SP",
        cidade |-> <<"S","a_tilde","o"," ","P","a","u","l","o">>],
       [id |-> 2,
        numero |-> <<"0","0","2","/","2","0","2","4">>,
        tipo |-> "concorrencia",
        objeto |-> <<"C","o","n","s","t","r","u","c_cedil","a_tilde","o"," ","d","e"," ","e","s","c","o","l","a"," ","m","u","n","i","c","i","p","a","l">>,
        orgao |-> <<"G","o","v","e","r","n","o"," ","d","o"," ","E","s","t","a","d","o"," ","d","o"," ","R","i","o"," ","d","e"," ","J","a","n","e","i","r","o">>,
        status |-> "em_andamento",
        valor_estimado |-> Valor(2500000),
        data_abertura |-> 20240920,
        data_encerramento |-> 20241220,
        uf |-> "RJ",
        cidade |-> <<"R","i","o"," ","d","e"," ","J","a","n","e","i","r","o">>],
       [id |-> 3,
        numero |-> <<"0","0","3","/","2","0","2","4">>,
        tipo |-> "tomada_precos",
        objeto |-> <<"S","e","r","v","i","c_cedil","o","s"," ","d","e"," ","l","i","m","p","e","z","a"," ","u","r","b","a","n","a">>,
        orgao |-> <<"P","r","e","f","e","i","t","u","r","a"," ","d","e"," ","B","r","a","s","i_acute","l","i","a">>,
        status |-> "aberta",
        valor_estimado |-> Valor(800000),
        data_abertura |-> 20241010,
        data_encerramento |-> 20241130,
        uf |-> "DF",
        cidade |-> <<"B","r","a","s","i_acute","l","i","a">>],
       [id |-> 4,
        numero |-> <<"0","0","4","/","2","0","2","4">>,
        tipo |-> "pregao",
        objeto |-> <<"A","q","u","i","s","i","c_cedil","a_tilde","o"," ","d","e"," ","m","e","d","i","c","a","m","e","n","t","o","s">>,
        orgao |-> <<"H","o","s","p","i","t","a","l"," ","R","e","g","i","o","n","a","l"," ","d","e"," ","S","a","l","v","a","d","o","r">>,
        status |-> "aberta",
        valor_estimado |-> Valor(500000),
        data_abertura |-> 20241025,
        data_encerramento |-> 20241215,
        uf |-> "BA",
        cidade |-> <<"S","a","l","v","a","d","o","r">>],
       [id |-> 5,
        numero |-> <<"0","0","5","/","2","0","2","4">>,
        tipo |-> "rdc",
        objeto |-> <<"C","o","n","s","t","r","u","c_cedil","a_tilde","o"," ","d","e"," ","p","o","n","t","e">>,
        orgao |-> <<"D","N","I","T"," ","-"," ","D","e","p","a","r","t","a","m","e","n","t","o"," ","N","a","c","i","o","n","a","l"," ","d","e"," ","I","n","f","r","a","e","s","t","r","u","t","u","r","a">>,
        status |-> "encerrada",
        valor_estimado |-> Valor(15000000),
        data_abertura |-> 20240801,
        data_encerramento |-> 20240930,
        uf |-> "MG",
        cidade |-> <<"B","e","l","o"," ","H","o","r","i","z","o","n","t","e">>] >>

-----------------------------------------------------------------------------
(* filtrar_licitacoes *)

\* l.get("valor_estimado", default)
GetValor(l, default) ==
    IF "valor_estimado" \in DOMAIN l THEN l.valor_estimado ELSE Valor(default)

\* The value that stands for float('inf'): above every amount of the model
Infinito == 1000000000

\* `None >= valor_min` / `None <= valor_max` raise TypeError
ValorLevanta(l) == "valor_estimado" \in DOMAIN l /\ l.valor_estimado.t = "None"

TypeError == [status |-> "TypeError", resultado |-> <<>>, total |-> 0]

\* `if tipos:` and the like: a list argument narrows when it is given and
\* not empty
ListaDada(x) == ~IsNone(x) /\ x.v # {}
\* `if valor_min is not None:`
ValorDado(x) == ~IsNone(x)
\* `if data_abertura_inicio:` a date object is always true
DataDada(x) == ~IsNone(x)
\* `if texto_busca:` a str is true when not empty
TextoDado(x) == ~IsNone(x) /\ x.v # <<>>

\* Each step is `resultado = [l for l in resultado if <test>]`; r carries the
\* working list, or the exception that ended the call.
FiltroTipos(r, tipos) ==
    IF r.status = "ok" /\ ListaDada(tipos)
    THEN [r EXCEPT !.resultado = SelectSeq(@, LAMBDA l : l.tipo \in tipos.v)]
    ELSE r

FiltroStatus(r, status) ==
    IF r.status = "ok" /\ ListaDada(status)
    THEN [r EXCEPT !.resultado = SelectSeq(@, LAMBDA l : l.status \in status.v)]
    ELSE r

FiltroUfs(r, ufs) ==
    IF r.status = "ok" /\ ListaDada(ufs)
    THEN [r EXCEPT !.resultado = SelectSeq(@, LAMBDA l : l.uf \in ufs.v)]
    ELSE r

FiltroCidades(r, cidades) ==
    IF r.status = "ok" /\ ListaDada(cidades)
    THEN LET cidades_lower == {lower(c) : c \in cidades.v}
         IN [r EXCEPT !.resultado =
                SelectSeq(@, LAMBDA l : lower(l.cidade) \in cidades_lower)]
    ELSE r

FiltroValorMin(r, valor_min) ==
    IF r.status = "ok" /\ ValorDado(valor_min)
    THEN IF \E i \in 1..Len(r.resultado) : ValorLevanta(r.resultado[i])
         THEN TypeError
         ELSE [r EXCEPT !.resultado =
                SelectSeq(@, LAMBDA l : GetValor(l, 0).v >= valor_min.v)]
    ELSE r

FiltroValorMax(r, valor_max) ==
    IF r.status = "ok" /\ ValorDado(valor_max)
    THEN IF \E i \in 1..Len(r.resultado) : ValorLevanta(r.resultado[i])
         THEN TypeError
         ELSE [r EXCEPT !.resultado =
                SelectSeq(@, LAMBDA l : GetValor(l, Infinito).v <= valor_max.v)]
    ELSE r

FiltroDataInicio(r, data_abertura_inicio) ==
    IF r.status = "ok" /\ DataDada(data_abertura_inicio)
    THEN [r EXCEPT !.resultado =
            SelectSeq(@, LAMBDA l : l.data_abertura >= data_abertura_inicio.v)]
    ELSE r

FiltroDataFim(r, data_abertura_fim) ==
    IF r.status = "ok" /\ DataDada(data_abertura_fim)
    THEN [r EXCEPT !.resultado =
            SelectSeq(@, LAMBDA l : l.data_abertura <= data_abertura_fim.v)]
    ELSE r

\* Mutant of FiltroTexto: the search text is looked for in objeto alone
FiltroTextoSoObjeto(r, texto_busca) ==
    IF r.status = "ok" /\ TextoDado(texto_busca)
    THEN LET texto_lower == lower(texto_busca.v)
         IN [r EXCEPT !.resultado =
                SelectSeq(@, LAMBDA l : StrIn(texto_lower, lower(l.objeto)))]
    ELSE r

FiltroTexto(r, texto_busca) ==
    IF r.status = "ok" /\ TextoDado(texto_busca)
    THEN LET texto_lower == lower(texto_busca.v)
         IN [r EXCEPT !.resultado =
                SelectSeq(@, LAMBDA l : \/ StrIn(texto_lower, lower(l.objeto))
                                        \/ StrIn(texto_lower, lower(l.orgao))
                                        \/ StrIn(texto_lower, lower(l.numero)))]
    ELSE r

\* Mutant of Paginar: total counted after the page is cut
PaginarTotalDaPagina(r, limite, offset) ==
    IF r.status # "ok" THEN r
    ELSE [status |-> "ok",
          resultado |-> Slice(r.resultado, offset, offset + limite),
          total |-> Len(Slice(r.resultado, offset, offset + limite))]

\* `total = len(resultado)` then `resultado = resultado[offset:offset + limite]`
Paginar(r, limite, offset) ==
    IF r.status # "ok" THEN r
    ELSE [status |-> "ok",
          resultado |-> Slice(r.resultado, offset, offset + limite),
          total |-> Len(r.resultado)]

\* f: the criteria, a record with fields tipos, status, ufs, cidades,
\* valor_min, valor_max, data_abertura_inicio, data_abertura_fim, texto_busca
filtrar_licitacoes(licitacoes, f, limite, offset) ==
    LET r0 == [status |-> "ok", resultado |-> licitacoes, total |-> 0]
        r1 == FiltroTipos(r0, f.tipos)
        r2 == FiltroStatus(r1, f.status)
        r3 == FiltroUfs(r2, f.ufs)
        r4 == FiltroCidades(r3, f.cidades)
        r5 == FiltroValorMin(r4, f.valor_min)
        r6 == FiltroValorMax(r5, f.valor_max)
        r7 == FiltroDataInicio(r6, f.data_abertura_inicio)
        r8 == FiltroDataFim(r7, f.data_abertura_fim)
        r9 == FiltroTexto(r8, f.texto_busca)
    IN Paginar(r9, limite, offset)

-----------------------------------------------------------------------------
(* Inputs of the direct calls of filtrar_licitacoes *)

\* Records that between them pass and fail every criterion below: A passes
\* them all, B has no valor_estimado key, C has valor_estimado = None and D
\* holds the search text only split over two fields.
RegA == [id |-> 1, numero |-> <<"1">>, tipo |-> "pregao",
         objeto |-> <<"x","a","B">>, orgao |-> <<"c">>, status |-> "aberta",
         valor_estimado |-> Valor(1), data_abertura |-> 2,
         uf |-> "SP", cidade |-> <<"S","p">>]
RegB == [id |-> 2, numero |-> <<"2">>, tipo |-> "pregao",
         objeto |-> <<"c">>, orgao |-> <<"A","B">>, status |-> "aberta",
         data_abertura |-> 3, uf |-> "SP", cidade |-> <<"s","p">>]
RegC == [id |-> 3, numero |-> <<"a","b">>, tipo |-> "concorrencia",
         objeto |-> <<"c">>, orgao |-> <<"c">>, status |-> "encerrada",
         valor_estimado |-> ValorNone, data_abertura |-> 1,
         uf |-> "RJ", cidade |-> <<"r","j">>]
RegD == [id |-> 4, numero |-> <<"4">>, tipo |-> "pregao",
         objeto |-> <<"a">>, orgao |-> <<"b">>, status |-> "aberta",
         valor_estimado |-> Valor(2), data_abertura |-> 2,
         uf |-> "SP", cidade |-> <<"S","P">>]

Universo == {RegA, RegB, RegC, RegD}

\* ids are unique within a collection
Colecoes ==
    UNION {{R \in [1..n -> Universo] :
                \A i, j \in 1..n : i # j => R[i].id # R[j].id} : n \in 0..MaxLen}

\* Every combination of given and not given criteria; the empty list and
\* the bound 0 are combined with the enum, value and text criteria only.
Criterios ==
  {f \in
    [tipos : {PyNone, Some({}), Some({"pregao"})},
     status : {PyNone, Some({"aberta"})},
     ufs : {PyNone, Some({"SP"})},
     cidades : {PyNone, Some({<<"s","P">>})},
     valor_min : {PyNone, Some(0), Some(1)},
     valor_max : {PyNone, Some(1)},
     data_abertura_inicio : {PyNone, Some(2)},
     data_abertura_fim : {PyNone, Some(2)},
     texto_busca : {PyNone, Some(<<"A","b">>)}] :
    (f.tipos = Some({}) \/ f.valor_min = Some(0))
        => /\ f.cidades = PyNone
           /\ f.data_abertura_inicio = PyNone
           /\ f.data_abertura_fim = PyNone}

SemCriterios ==
    [tipos |-> PyNone, status |-> PyNone, ufs |-> PyNone, cidades |-> PyNone,
     valor_min |-> PyNone, valor_max |-> PyNone,
     data_abertura_inicio |-> PyNone, data_abertura_fim |-> PyNone,
     texto_busca |-> PyNone]

-----------------------------------------------------------------------------
(* State *)

Init ==
    /\ MOCK_LICITACOES = MockInicial
    /\ pc = "idle"
    /\ req = [endpoint |-> "none"]
    /\ upstream = [pncp |-> [t |-> "none"], transparencia |-> [t |-> "none"]]
    /\ resp = [endpoint |-> "none"]
    /\ chamadas = [pncp |-> 0, transparencia |-> 0, orgaos |-> 0]
    /\ chamada = [fn |-> "none"]

\* A direct call filtrar_licitacoes(licitacoes, **f, limite=..., offset=...)
ChamarFiltrar ==
    /\ chamada.fn = "none"
    /\ \E R \in Colecoes, f \in Criterios,
          limite \in 1..MaxLimite, offset \in 0..MaxOffset :
        /\ chamada' = [fn |-> "filtrar_licitacoes", licitacoes |-> R, f |-> f,
                       limite |-> limite, offset |-> offset,
                       ret |-> filtrar_licitacoes(R, f, limite, offset)]
        /\ UNCHANGED <<MOCK_LICITACOES, pc, req, upstream, resp, chamadas>>

\* The call returns to its caller
Retornar ==
    /\ chamada.fn # "none"
    /\ chamada' = [fn |-> "none"]
    /\ UNCHANGED <<MOCK_LICITACOES, pc, req, upstream, resp, chamadas>>

NextFiltro == ChamarFiltrar \/ Retornar

SpecFiltro == Init /\ [][NextFiltro]_vars

-----------------------------------------------------------------------------
(* Properties of filtrar_licitacoes, stated over its direct calls *)

FoiFiltrar == chamada.fn = "filtrar_licitacoes"

\* The amount of l as the value criteria are specified to read it: an absent
\* amount (no key, or None) counts as `ausente`.
ValorOu(l, ausente) ==
    IF "valor_estimado" \in DOMAIN l /\ l.valor_estimado.t = "num"
    THEN l.valor_estimado.v
    ELSE ausente

\* l satisfies every criterion of f that is present.  A list criterion is
\* present when it is given and names at least one value, a bound or a date
\* when it is given.
Satisfaz(l, f) ==
    /\ (f.tipos.t = "Some" /\ f.tipos.v # {}) => l.tipo \in f.tipos.v
    /\ (f.status.t = "Some" /\ f.status.v # {}) => l.status \in f.status.v
    /\ (f.ufs.t = "Some" /\ f.ufs.v # {}) => l.uf \in f.ufs.v
    /\ (f.cidades.t = "Some" /\ f.cidades.v # {}) =>
            \E c \in f.cidades.v : lower(c) = lower(l.cidade)
    /\ f.valor_min.t = "Some" => ValorOu(l, 0) >= f.valor_min.v
    /\ f.valor_max.t = "Some" =>
            /\ "valor_estimado" \in DOMAIN l
            /\ l.valor_estimado.t = "num"
            /\ l.valor_estimado.v <= f.valor_max.v
    /\ f.data_abertura_inicio.t = "Some" =>
            l.data_abertura >= f.data_abertura_inicio.v
    /\ f.data_abertura_fim.t = "Some" =>
            l.data_abertura <= f.data_abertura_fim.v
    /\ f.texto_busca.t = "Some" =>
            \E campo \in {l.objeto, l.orgao, l.numero} :
                StrIn(lower(f.texto_busca.v), lower(campo))

Satisfazem(R, f) == SelectSeq(R, LAMBDA l : Satisfaz(l, f))

TodosPresentes(f) ==
    /\ \A k \in DOMAIN f : f[k].t = "Some"
    /\ f.tipos.v # {}

\* C1: a call with offset 0 and limite >= len(R) that returns, returns
\* exactly the records of R that satisfy every present criterion, in the
\* order of R: none that violates one, and none missing that satisfies all.
C1_FiltroExato ==
    (FoiFiltrar /\ chamada.ret.status = "ok"
        /\ chamada.offset = 0 /\ chamada.limite >= Len(chamada.licitacoes))
    => chamada.ret.resultado = Satisfazem(chamada.licitacoes, chamada.f)

\* C1 witness: all nine criteria present, over a collection of which some
\* records are returned and some are not.
C1_Witness ==
    /\ FoiFiltrar /\ chamada.ret.status = "ok"
    /\ chamada.offset = 0 /\ chamada.limite >= Len(chamada.licitacoes)
    /\ TodosPresentes(chamada.f)
    /\ Len(chamada.ret.resultado) = 1
    /\ Len(chamada.licitacoes) = 2

\* C3: the total a call returns is the number of records satisfying every
\* present criterion, whatever offset and limite are; with no criterion it
\* is len(R).
C3_TotalAntesDaPagina ==
    (FoiFiltrar /\ chamada.ret.status = "ok")
    => /\ chamada.ret.total = Len(Satisfazem(chamada.licitacoes, chamada.f))
       /\ chamada.f = SemCriterios
            => chamada.ret.total = Len(chamada.licitacoes)

\* C3 witness: criteria present and a page that is shorter than the total.
C3_Witness ==
    /\ FoiFiltrar /\ chamada.ret.status = "ok"
    /\ chamada.f # SemCriterios
    /\ chamada.offset > 0
    /\ chamada.ret.total = 2
    /\ Len(chamada.ret.resultado) = 1

\* The same call without pagination: offset 0 and a limite that takes all
SemPagina == filtrar_licitacoes(chamada.licitacoes, chamada.f,
                                Len(chamada.licitacoes) + 1, 0)

\* C4: for a filtered set of n records, offset >= 0 and limite >= 1 the page
\* has max(0, min(limite, n - offset)) records, and pagination never turns a
\* call into an error: an offset at or beyond n gives an empty page.
C4_TamanhoDaPagina ==
    FoiFiltrar
    => /\ chamada.ret.status = SemPagina.status
       /\ chamada.ret.status = "ok" =>
            Len(chamada.ret.resultado) =
                Max(0, Min(chamada.limite,
                           Len(SemPagina.resultado) - chamada.offset))

\* C4 witness: an offset beyond a non-empty filtered set gave an empty page.
C4_Witness ==
    /\ FoiFiltrar /\ chamada.ret.status = "ok"
    /\ chamada.ret.total > 0
    /\ chamada.offset > chamada.ret.total
    /\ chamada.ret.resultado = <<>>

TemValorAusente(R) ==
    \E i \in 1..Len(R) :
        "valor_estimado" \notin DOMAIN R[i] \/ R[i].valor_estimado.t = "None"

\* C10: a record whose valor_estimado is absent, as a missing key or as
\* None, goes through the value filters without error, is kept by the
\* minimum bound exactly when that bound is <= 0 and is never within a
\* maximum bound.
C10_ValorAusente ==
    (FoiFiltrar /\ TemValorAusente(chamada.licitacoes))
    => /\ chamada.ret.status = "ok"
       /\ (chamada.offset = 0 /\ chamada.limite >= Len(chamada.licitacoes))
            => chamada.ret.resultado =
                    Satisfazem(chamada.licitacoes, chamada.f)

\* The part of C10 the code does keep: with the key missing altogether there
\* is no error and the record counts as 0 / unbounded.
C10_ChaveAusente ==
    (FoiFiltrar
        /\ \A i \in 1..Len(chamada.licitacoes) :
                "valor_estimado" \in DOMAIN chamada.licitacoes[i]
                    => chamada.licitacoes[i].valor_estimado.t = "num")
    => /\ chamada.ret.status = "ok"
       /\ (chamada.offset = 0 /\ chamada.limite >= Len(chamada.licitacoes))
            => chamada.ret.resultado =
                    Satisfazem(chamada.licitacoes, chamada.f)

-----------------------------------------------------------------------------
(* JSON values, as response.json() yields them *)

JNull == [t |-> "null"]
JNum(n) == [t |-> "num", v |-> n]
JStr(s) == [t |-> "str", v |-> s]
JArr(a) == [t |-> "arr", v |-> a]
JObj(o) == [t |-> "obj", v |-> o]

\* dict.get(key, default) on the keys of a JSON object
Get(d, key, default) == IF key \in DOMAIN d THEN d[key] ELSE default

\* the empty str
Vazio == <<>>

-----------------------------------------------------------------------------
(* LicitacaoService.mapear_tipo_pncp / mapear_status_pncp *)

MapeamentoTipo ==
    { << <<"P","R","E","G","A","O">>, "pregao" >>,
      << <<"C","O","N","C","O","R","R","E","N","C","I","A">>, "concorrencia" >>,
      << <<"T","O","M","A","D","A","_","P","R","E","C","O","S">>, "tomada_precos" >>,
      << <<"C","O","N","V","I","T","E">>, "convite" >>,
      << <<"R","D","C">>, "rdc" >>,
      << <<"C","O","N","C","U","R","S","O">>, "concurso" >>,
      << <<"L","E","I","L","A","O">>, "leilao" >> }

MapeamentoStatus ==
    { << <<"A","B","E","R","T","A">>, "aberta" >>,
      << <<"E","M","_","A","N","D","A","M","E","N","T","O">>, "em_andamento" >>,
      << <<"E","N","C","E","R","R","A","D","A">>, "encerrada" >>,
      << <<"S","U","S","P","E","N","S","A">>, "suspensa" >>,
      << <<"C","A","N","C","E","L","A","D","A">>, "cancelada" >> }

\* mapeamento.get(chave, padrao) on a table of <<key, value>> pairs
Consultar(mapeamento, chave, padrao) ==
    IF \E par \in mapeamento : par[1] = chave
    THEN (CHOOSE par \in mapeamento : par[1] = chave)[2]
    ELSE padrao

\* Mutant of mapear_tipo_pncp: the code is looked up as given
mapear_tipo_pncp_sem_upper(modalidade) ==
    Consultar(MapeamentoTipo, modalidade, "pregao")

\* modalidade: a str
mapear_tipo_pncp(modalidade) ==
    Consultar(MapeamentoTipo, upper(modalidade), "pregao")

\* situacao: a str
mapear_status_pncp(situacao) ==
    Consultar(MapeamentoStatus, upper(situacao), "aberta")

-----------------------------------------------------------------------------
(* LicitacaoService.normalizar_dados_pncp *)

\* Mutant of ItemLevanta: item["sequencialLicitacao"] in place of item.get,
\* a KeyError on an item without the key
ItemLevantaSemGet(item) ==
    \/ item.t # "obj"
    \/ "sequencialLicitacao" \notin DOMAIN item.v
    \/ Get(item.v, "modalidadeContratacao", JStr(Vazio)).t # "str"
    \/ Get(item.v, "situacaoLicitacao", JStr(Vazio)).t # "str"

\* Building the record of one item raises AttributeError when the item is
\* not a dict (item.get) or when the value handed to a mapear_* function is
\* not a str (modalidade.upper(), situacao.upper()).
ItemLevanta(item) ==
    \/ item.t # "obj"
    \/ Get(item.v, "modalidadeContratacao", JStr(Vazio)).t # "str"
    \/ Get(item.v, "situacaoLicitacao", JStr(Vazio)).t # "str"

\* The dict built for one item; created_at and updated_at (datetime.now())
\* are left out.
NormalizarItem(item) ==
    [id |-> Get(item.v, "sequencialLicitacao", JNum(0)),
     numero |-> Get(item.v, "numeroLicitacao", JStr(Vazio)),
     tipo |-> mapear_tipo_pncp(
                Get(item.v, "modalidadeContratacao", JStr(Vazio)).v),
     objeto |-> Get(item.v, "objetoLicitacao", JStr(Vazio)),
     orgao |-> Get(item.v, "nomeOrgao", JStr(Vazio)),
     status |-> mapear_status_pncp(
                Get(item.v, "situacaoLicitacao", JStr(Vazio)).v),
     valor_estimado |-> Get(item.v, "valorEstimado", JNum(0)),
     data_abertura |-> Get(item.v, "dataAbertura", JStr(Vazio)),
     data_encerramento |-> Get(item.v, "dataEncerramento", JNull),
     uf |-> Get(item.v, "ufOrgao", JStr(Vazio)),
     cidade |-> Get(item.v, "cidadeOrgao", JStr(Vazio)),
     modalidade_participacao |->
        Get(item.v, "modalidadeContratacao", JStr(Vazio)),
     link_edital |-> Get(item.v, "linkEdital", JNull)]

\* The loop body: append the item's record, or `continue` when it raised
NormalizarPasso(licitacoes_normalizadas, item) ==
    IF ItemLevanta(item)
    THEN licitacoes_normalizadas
    ELSE Append(licitacoes_normalizadas, NormalizarItem(item))

RECURSIVE NormalizarLista(_, _)
NormalizarLista(itens, licitacoes_normalizadas) ==
    IF itens = <<>>
    THEN licitacoes_normalizadas
    ELSE NormalizarLista(Tail(itens),
                         NormalizarPasso(licitacoes_normalizadas, Head(itens)))

\* dados_pncp: a JSON object whose "data", when present, is an array
normalizar_dados_pncp(dados_pncp) ==
    NormalizarLista(Get(dados_pncp.v, "data", JArr(<<>>)).v, <<>>)

-----------------------------------------------------------------------------
(* Inputs of the normalizer and of the mapping functions *)

\* most items of one upstream payload
MaxItens == 2

ItemBom ==
    JObj([sequencialLicitacao |-> JNum(7),
          numeroLicitacao |-> JStr(<<"7","/","2","4">>),
          modalidadeContratacao |-> JStr(<<"C","o","n","c","o","r","r","e","n","c","i","a">>),
          objetoLicitacao |-> JStr(<<"o","b","r","a">>),
          nomeOrgao |-> JStr(<<"D","N","I","T">>),
          situacaoLicitacao |-> JStr(<<"e","n","c","e","r","r","a","d","a">>),
          valorEstimado |-> JNum(10),
          dataAbertura |-> JStr(<<"2","0","2","4">>),
          ufOrgao |-> JStr(<<"M","G">>),
          cidadeOrgao |-> JStr(<<"B","H">>)])
\* an item with none of the keys the normalizer reads
ItemSemChaves == JObj(<<>>)
\* "modalidadeContratacao": null
ItemModalidadeNula ==
    JObj([sequencialLicitacao |-> JNum(8),
          numeroLicitacao |-> JStr(<<"8","/","2","4">>),
          modalidadeContratacao |-> JNull])
\* "situacaoLicitacao": 3
ItemSituacaoNumero ==
    JObj([sequencialLicitacao |-> JNum(9),
          situacaoLicitacao |-> JNum(3)])
\* an array element that is no object
ItemNaoDict == JStr(<<"x">>)
\* an item of an unknown modality, with a null amount
ItemDesconhecido ==
    JObj([sequencialLicitacao |-> JNum(6),
          modalidadeContratacao |-> JStr(<<"X","Y","Z">>),
          situacaoLicitacao |-> JStr(<<"S","u","s","p","e","n","s","a">>),
          valorEstimado |-> JNull])

Itens ==
    <<ItemBom, ItemSemChaves, ItemModalidadeNula, ItemSituacaoNumero,
      ItemNaoDict, ItemDesconhecido>>

\* the item sequences of at most MaxItens items (as sequences of indices
\* into Itens)
ListasDeItens ==
    UNION {{[i \in 1..n |-> Itens[ix[i]]] : ix \in [1..n -> 1..Len(Itens)]}
            : n \in 0..MaxItens}

\* {"data": [...], "totalElements": N}, N being the upstream's own count;
\* the same without "totalElements"; and {} with neither key
PayloadsPncp ==
    {JObj([data |-> JArr(l), totalElements |-> JNum(Len(l) + 40)])
        : l \in ListasDeItens}
    \cup {JObj([data |-> JArr(l)]) : l \in ListasDeItens}
    \cup {JObj(<<>>)}

Capitalizado(s) == IF s = <<>> THEN s ELSE <<s[1]>> \o lower(Tail(s))

\* every table key as written, in lower case and capitalized, and codes
\* that are in neither table
CodigosDe(mapeamento) ==
    UNION {{par[1], lower(par[1]), Capitalizado(par[1])} : par \in mapeamento}
    \cup { Vazio,
           <<"X","Y","Z">>,
           <<"p","r","e","g","a_tilde","o">>,
           <<"c","o","n","s","u","l","t","a","_","p","u","b","l","i","c","a">>,
           <<"T","O","M","A","D","A"," ","P","R","E","C","O","S">>,
           <<"A","B","E","R","T","O">>,
           <<"a","t","i","v","a">> }

ChamarNormalizar ==
    /\ chamada.fn = "none"
    /\ \E dados_pncp \in PayloadsPncp :
        chamada' = [fn |-> "normalizar_dados_pncp", dados_pncp |-> dados_pncp,
                    ret |-> normalizar_dados_pncp(dados_pncp)]
    /\ UNCHANGED <<MOCK_LICITACOES, pc, req, upstream, resp, chamadas>>

ChamarMapearTipo ==
    /\ chamada.fn = "none"
    /\ \E modalidade \in CodigosDe(MapeamentoTipo) :
        chamada' = [fn |-> "mapear_tipo_pncp", codigo |-> modalidade,
                    ret |-> mapear_tipo_pncp(modalidade)]
    /\ UNCHANGED <<MOCK_LICITACOES, pc, req, upstream, resp, chamadas>>

ChamarMapearStatus ==
    /\ chamada.fn = "none"
    /\ \E situacao \in CodigosDe(MapeamentoStatus) :
        chamada' = [fn |-> "mapear_status_pncp", codigo |-> situacao,
                    ret |-> mapear_status_pncp(situacao)]
    /\ UNCHANGED <<MOCK_LICITACOES, pc, req, upstream, resp, chamadas>>

NextNormalizador ==
    \/ ChamarNormalizar
    \/ ChamarMapearTipo
    \/ ChamarMapearStatus
    \/ Retornar

SpecNormalizador == Init /\ [][NextNormalizador]_vars

-----------------------------------------------------------------------------
(* Properties of the normalizer and of the mapping functions *)

\* The items whose extraction raises, told from the payload alone: what is
\* not an object has no .get, and null / a number has no .upper().
ExtracaoLevanta(item) ==
    \/ item.t \in {"null", "num", "str", "arr"}
    \/ /\ item.t = "obj"
       /\ \E k \in {"modalidadeContratacao", "situacaoLicitacao"} :
            k \in DOMAIN item.v /\ item.v[k].t # "str"

ItensDe(dados_pncp) ==
    IF "data" \in DOMAIN dados_pncp.v THEN dados_pncp.v.data.v ELSE <<>>

\* C7: normalizar_dados_pncp returns, in input order, one record for each
\* item whose extraction does not raise and none for an item whose
\* extraction raises; an item without any recognized key does not raise and
\* gives a record of type pregao and status aberta, so that a well-formed
\* item followed by a key-less one gives 2 records.
C7_NormalizadorParcial ==
    chamada.fn = "normalizar_dados_pncp"
    => LET itens == ItensDe(chamada.dados_pncp)
           bons == SelectSeq(itens, LAMBDA it : ~ExtracaoLevanta(it))
           ret == chamada.ret
       IN /\ Len(ret) = Len(bons)
          /\ \A i \in 1..Len(bons) :
                /\ ret[i].id = Get(bons[i].v, "sequencialLicitacao", JNum(0))
                /\ ret[i].numero
                     = Get(bons[i].v, "numeroLicitacao", JStr(Vazio))
                /\ ret[i].tipo \in TipoLicitacao
                /\ ret[i].status \in StatusLicitacao
                /\ bons[i] = ItemSemChaves
                     => ret[i].tipo = "pregao" /\ ret[i].status = "aberta"
          /\ itens = <<ItemBom, ItemSemChaves>> => Len(ret) = 2

\* C7 witness: the well-formed item followed by the key-less one gave two
\* records, the second filled with the fallbacks.
C7_Witness ==
    /\ chamada.fn = "normalizar_dados_pncp"
    /\ ItensDe(chamada.dados_pncp) = <<ItemBom, ItemSemChaves>>
    /\ Len(chamada.ret) = 2
    /\ chamada.ret[1].tipo = "concorrencia"
    /\ chamada.ret[2].tipo = "pregao" /\ chamada.ret[2].status = "aberta"

\* An item that raises is left out and the items after it are kept.
C7_WitnessSalto ==
    /\ chamada.fn = "normalizar_dados_pncp"
    /\ ItensDe(chamada.dados_pncp) = <<ItemModalidadeNula, ItemBom>>
    /\ Len(chamada.ret) = 1
    /\ chamada.ret[1].id = JNum(7)

\* The entry of `mapeamento` whose key is `codigo` up to case, or `padrao`
EntradaSemCaixa(mapeamento, codigo, padrao) ==
    IF \E par \in mapeamento : lower(par[1]) = lower(codigo)
    THEN (CHOOSE par \in mapeamento : lower(par[1]) = lower(codigo))[2]
    ELSE padrao

\* C8: mapear_tipo_pncp and mapear_status_pncp map every code, whatever its
\* case, to the entry of the 7-key (type) or 5-key (status) table, and a
\* code that is in no entry, the empty one included, to pregao (type) or
\* aberta (status); the result is always a value of the enum.
C8_MapeamentoTotal ==
    /\ Cardinality(MapeamentoTipo) = 7
    /\ Cardinality(MapeamentoStatus) = 5
    /\ chamada.fn = "mapear_tipo_pncp"
        => /\ chamada.ret \in TipoLicitacao
           /\ chamada.ret
                = EntradaSemCaixa(MapeamentoTipo, chamada.codigo, "pregao")
    /\ chamada.fn = "mapear_status_pncp"
        => /\ chamada.ret \in StatusLicitacao
           /\ chamada.ret
                = EntradaSemCaixa(MapeamentoStatus, chamada.codigo, "aberta")

\* C8 witness: a code in lower case was mapped to its entry, which is not
\* the fallback.
C8_Witness ==
    /\ chamada.fn = "mapear_tipo_pncp"
    /\ chamada.codigo = <<"c","o","n","c","o","r","r","e","n","c","i","a">>
    /\ chamada.ret = "concorrencia"

-----------------------------------------------------------------------------
(* The outbound calls.  `resposta` is what the HTTP client did:             *)
(*   [t |-> "erro_rede"]          client.get raised (timeout, no network)   *)
(*   [t |-> "status", code |-> n] a response whose status is n # 200        *)
(*   [t |-> "json_invalido"]      status 200, response.json() raised        *)
(*   [t |-> "ok", body |-> j]     status 200 with the JSON value j          *)

FallbackPncp == JObj([data |-> JArr(<<>>), totalElements |-> JNum(0)])
FallbackTransparencia == JArr(<<>>)

Retorno(v) == [status |-> "ok", v |-> v]
Excecao == [status |-> "raise"]

\* try: ... except Exception: return {"data": [], "totalElements": 0}
buscar_licitacoes_pncp(resposta) ==
    IF resposta.t = "ok" THEN Retorno(resposta.body) ELSE Retorno(FallbackPncp)

\* try: ... except Exception: return []
buscar_licitacoes_transparencia(resposta) ==
    IF resposta.t = "ok"
    THEN Retorno(resposta.body)
    ELSE Retorno(FallbackTransparencia)

\* no try: only a status other than 200 is turned into the fallback
listar_orgaos_pncp(resposta) ==
    CASE resposta.t = "ok" -> Retorno(resposta.body)
      [] resposta.t = "status" -> Retorno(FallbackPncp)
      [] OTHER -> Excecao

-----------------------------------------------------------------------------
(* Sorting, as obter_licitacoes does it *)

CamposOrdenaveis == {"data_abertura", "valor_estimado", "numero"}

\* key(a) < key(b) for the sort key of `campo`
ChaveMenor(a, b, campo) ==
    CASE campo = "data_abertura" -> a.data_abertura < b.data_abertura
      [] campo = "valor_estimado" -> GetValor(a, 0).v < GetValor(b, 0).v
      [] campo = "numero" -> StrLess(a.numero, b.numero)

\* a goes before b in the sorted list
Antes(a, b, campo, reverse) ==
    IF reverse THEN ChaveMenor(b, a, campo) ELSE ChaveMenor(a, b, campo)

\* x put before the first element it goes before: after its equals
Inserir(ordenada, x, campo, reverse) ==
    LET cabe == {i \in 1..Len(ordenada) : Antes(x, ordenada[i], campo, reverse)}
        pos == IF cabe = {} THEN Len(ordenada) + 1
               ELSE CHOOSE i \in cabe : \A j \in cabe : i <= j
    IN SubSeq(ordenada, 1, pos - 1) \o <<x>>
            \o SubSeq(ordenada, pos, Len(ordenada))

RECURSIVE OrdenarEm(_, _, _, _)
OrdenarEm(ordenada, resto, campo, reverse) ==
    IF resto = <<>> THEN ordenada
    ELSE OrdenarEm(Inserir(ordenada, Head(resto), campo, reverse),
                   Tail(resto), campo, reverse)

\* list.sort(key=..., reverse=...): stable, also when reversed
Sort(lista, campo, reverse) == OrdenarEm(<<>>, lista, campo, reverse)

\* comparing None with a number raises TypeError: a sort of two or more
\* records of which one has valor_estimado = None
SortLevanta(lista, campo) ==
    /\ campo = "valor_estimado"
    /\ Len(lista) >= 2
    /\ \E i \in 1..Len(lista) : ValorLevanta(lista[i])

\* Ordenacao with a default: a field outside the list sorts by data_abertura
OrdenacaoPorOmissao(lista, ordenar_por, ordem_desc) ==
    IF ~IsNone(ordenar_por) /\ ordenar_por.v \in CamposOrdenaveis
    THEN IF SortLevanta(lista, ordenar_por.v)
         THEN Excecao
         ELSE Retorno(Sort(lista, ordenar_por.v, ordem_desc))
    ELSE Retorno(Sort(lista, "data_abertura", ordem_desc))

\* `if ordenar_por and ordenar_por in [...]`, then the sort of the page
Ordenacao(lista, ordenar_por, ordem_desc) ==
    IF ~IsNone(ordenar_por) /\ ordenar_por.v \in CamposOrdenaveis
    THEN IF SortLevanta(lista, ordenar_por.v)
         THEN Excecao
         ELSE Retorno(Sort(lista, ordenar_por.v, ordem_desc))
    ELSE Retorno(lista)

-----------------------------------------------------------------------------
(* The endpoints.  A handler's `except Exception` and the framework's own   *)
(* handling of an exception both answer with status 500.                    *)

Erro500(endpoint) == [endpoint |-> endpoint, status |-> 500]

\* GET /licitacoes with the flag set also when the next page starts at total
obter_licitacoes_proxima_inclusive(f, limite, offset, ordenar_por, ordem_desc) ==
    LET r == filtrar_licitacoes(MOCK_LICITACOES, f, limite, offset)
        o == Ordenacao(r.resultado, ordenar_por, ordem_desc)
    IN IF r.status # "ok" \/ o.status # "ok"
       THEN Erro500("licitacoes")
       ELSE [endpoint |-> "licitacoes", status |-> 200,
             dados |-> o.v, total |-> r.total,
             limite |-> limite, offset |-> offset,
             tem_proxima_pagina |-> offset + limite <= r.total]

\* GET /licitacoes
obter_licitacoes(f, limite, offset, ordenar_por, ordem_desc) ==
    LET r == filtrar_licitacoes(MOCK_LICITACOES, f, limite, offset)
        o == Ordenacao(r.resultado, ordenar_por, ordem_desc)
    IN IF r.status # "ok" \/ o.status # "ok"
       THEN Erro500("licitacoes")
       ELSE [endpoint |-> "licitacoes", status |-> 200,
             dados |-> o.v, total |-> r.total,
             limite |-> limite, offset |-> offset,
             tem_proxima_pagina |-> offset + limite < r.total]

\* The defaults of filtrar_licitacoes
LimitePadrao == 100
OffsetPadrao == 0

\* POST /licitacoes/buscar
buscar_licitacoes(filtros) ==
    LET r == filtrar_licitacoes(MOCK_LICITACOES, filtros,
                                LimitePadrao, OffsetPadrao)
    IN IF r.status # "ok"
       THEN Erro500("buscar")
       ELSE [endpoint |-> "buscar", status |-> 200,
             dados |-> r.resultado, total |-> r.total]

\* GET /licitacoes/pncp, from the await of buscar_licitacoes_pncp on
obter_licitacoes_pncp(resposta) ==
    LET dados_pncp == buscar_licitacoes_pncp(resposta).v
    IN [endpoint |-> "pncp", status |-> 200,
        dados |-> normalizar_dados_pncp(dados_pncp),
        total |-> Get(dados_pncp.v, "totalElements", JNum(0))]

\* len(x) if isinstance(x, list) else 0
LenSeLista(j) == IF j.t = "arr" THEN Len(j.v) ELSE 0

\* GET /licitacoes/transparencia, from the await on
obter_licitacoes_transparencia(resposta) ==
    LET dados_transparencia == buscar_licitacoes_transparencia(resposta).v
    IN [endpoint |-> "transparencia", status |-> 200,
        dados |-> dados_transparencia,
        total |-> LenSeLista(dados_transparencia)]

\* GET /orgaos/pncp, from the await on: the handler has no try of its own
obter_orgaos_pncp(resposta) ==
    LET r == listar_orgaos_pncp(resposta)
    IN IF r.status # "ok"
       THEN Erro500("orgaos")
       ELSE [endpoint |-> "orgaos", status |-> 200, dados |-> r.v]

\* The keys of a dict, in the order iteration gives them
RECURSIVE ChavesEmOrdem(_)
ChavesEmOrdem(chaves) ==
    IF chaves = {} THEN <<>>
    ELSE LET k == CHOOSE k \in chaves : TRUE
         IN <<JStr(k)>> \o ChavesEmOrdem(chaves \ {k})

\* list.extend(x): the elements of a list, the keys of a dict; None and a
\* number are not iterable (TypeError)
Extend(lista, j) ==
    CASE j.t = "arr" -> Retorno(lista \o j.v)
      [] j.t = "obj" -> Retorno(lista \o ChavesEmOrdem(DOMAIN j.v))
      [] OTHER -> Excecao

\* GET /licitacoes/consolidado once every enabled source has answered;
\* The consolidated response with the mock fallback taken whatever sources
\* are enabled
obter_licitacoes_consolidado_sempre_mock(incluir_pncp, incluir_transparencia, r_pncp, r_transparencia) ==
    [endpoint |-> "consolidado", status |-> 200,
     fontes_consultadas |->
        [k \in {"mock"} |-> [total |-> JNum(Len(MOCK_LICITACOES)),
                             recuperados |-> Len(MOCK_LICITACOES)]],
     dados |-> MOCK_LICITACOES,
     total_consolidado |-> Len(MOCK_LICITACOES)]

\* r_pncp and r_transparencia are the answers (ignored for a source that is
\* not enabled)
obter_licitacoes_consolidado(incluir_pncp, incluir_transparencia, r_pncp, r_transparencia) ==
    LET dados_pncp == buscar_licitacoes_pncp(r_pncp).v
        licitacoes_pncp == normalizar_dados_pncp(dados_pncp)
        apos_pncp == IF incluir_pncp THEN licitacoes_pncp ELSE <<>>
        dados_transparencia ==
            buscar_licitacoes_transparencia(r_transparencia).v
        apos_transparencia ==
            IF incluir_transparencia
            THEN Extend(apos_pncp, dados_transparencia)
            ELSE Retorno(apos_pncp)
        nenhuma == ~incluir_pncp /\ ~incluir_transparencia
        fontes == {k \in {"pncp"} : incluir_pncp}
                    \cup {k \in {"transparencia"} : incluir_transparencia}
                    \cup {k \in {"mock"} : nenhuma}
        resultados ==
            [k \in fontes |->
                CASE k = "pncp" ->
                        [total |-> Get(dados_pncp.v, "totalElements", JNum(0)),
                         recuperados |-> Len(licitacoes_pncp)]
                  [] k = "transparencia" ->
                        [total |-> JNum(LenSeLista(dados_transparencia)),
                         recuperados |-> LenSeLista(dados_transparencia)]
                  [] k = "mock" ->
                        [total |-> JNum(Len(MOCK_LICITACOES)),
                         recuperados |-> Len(MOCK_LICITACOES)]]
        dados_consolidados ==
            IF nenhuma THEN MOCK_LICITACOES ELSE apos_transparencia.v
    IN IF apos_transparencia.status # "ok"
       THEN Erro500("consolidado")
       ELSE [endpoint |-> "consolidado", status |-> 200,
             fontes_consultadas |-> resultados,
             dados |-> dados_consolidados,
             total_consolidado |-> Len(dados_consolidados)]

-----------------------------------------------------------------------------
(* Lists as objects.  list.sort and list.extend change the list object they *)
(* are called on; the dataset changes when that object is the dataset.      *)

RefMock == "MOCK_LICITACOES"
RefLocal == "local"

\* filtrar_licitacoes without the copy and the slice: the list it is given
RefSemCopia(ref_licitacoes) == ref_licitacoes

\* The list object filtrar_licitacoes returns: `licitacoes.copy()` is a new
\* list, and so is each list comprehension and the slice of the page
RefDoResultado(ref_licitacoes) == RefLocal

\* The dataset after the list object `ref` has been given the content `lista`
MutarEm(ref, lista, mock) == IF ref = RefMock THEN lista ELSE mock

\* MOCK_LICITACOES after GET /licitacoes: the sort is made in place on the
\* list filtrar_licitacoes returned
MockAposObterLicitacoes(f, limite, offset, ordenar_por, ordem_desc) ==
    LET r == filtrar_licitacoes(MOCK_LICITACOES, f, limite, offset)
        o == Ordenacao(r.resultado, ordenar_por, ordem_desc)
    IN IF r.status = "ok" /\ o.status = "ok"
       THEN MutarEm(RefDoResultado(RefMock), o.v, MOCK_LICITACOES)
       ELSE MOCK_LICITACOES

\* MOCK_LICITACOES after GET /licitacoes/consolidado: both extends act on the
\* list made by `dados_consolidados = []`; the name is bound to the dataset
\* only after them, and nothing changes the list from there to the return
MockAposConsolidado(incluir_pncp, incluir_transparencia, r_pncp, r_transparencia) ==
    LET ref == RefLocal
        licitacoes_pncp ==
            normalizar_dados_pncp(buscar_licitacoes_pncp(r_pncp).v)
        m1 == IF incluir_pncp
              THEN MutarEm(ref, MOCK_LICITACOES \o licitacoes_pncp,
                           MOCK_LICITACOES)
              ELSE MOCK_LICITACOES
        ext == Extend(m1, buscar_licitacoes_transparencia(r_transparencia).v)
    IN IF incluir_transparencia /\ ext.status = "ok"
       THEN MutarEm(ref, ext.v, m1)
       ELSE m1

-----------------------------------------------------------------------------
(* The endpoints that read one record or one field of the dataset *)

\* GET /licitacoes/{licitacao_id}: the first record with the id, or 404
obter_licitacao_por_id(licitacao_id) ==
    LET achadas == SelectSeq(MOCK_LICITACOES, LAMBDA l : l.id = licitacao_id)
    IN IF achadas = <<>>
       THEN [endpoint |-> "por_id", status |-> 404]
       ELSE [endpoint |-> "por_id", status |-> 200, dados |-> Head(achadas)]

\* sorted(list(set(...))) of strings
RECURSIVE sorted(_)
sorted(S) ==
    IF S = {} THEN <<>>
    ELSE LET m == CHOOSE x \in S : \A y \in S \ {x} : StrLess(x, y)
         IN <<m>> \o sorted(S \ {m})

\* GET /cidades
obter_cidades(uf) ==
    LET cidades ==
            {MOCK_LICITACOES[i].cidade :
                i \in {j \in 1..Len(MOCK_LICITACOES) :
                            IsNone(uf) \/ MOCK_LICITACOES[j].uf = uf.v}}
    IN [endpoint |-> "cidades", status |-> 200, dados |-> sorted(cidades)]

-----------------------------------------------------------------------------
(* GET /estatisticas *)

\* The grouped count with every observed value counted once
ContarPorSemSomar(campo) ==
    [v \in {MOCK_LICITACOES[i][campo] : i \in 1..Len(MOCK_LICITACOES)} |-> 1]

\* for licitacao in MOCK_LICITACOES: count[v] = count.get(v, 0) + 1
ContarPor(campo) ==
    [v \in {MOCK_LICITACOES[i][campo] : i \in 1..Len(MOCK_LICITACOES)} |->
        Cardinality({i \in 1..Len(MOCK_LICITACOES) :
                        MOCK_LICITACOES[i][campo] = v})]

\* sum(l.get("valor_estimado", 0) for l in lista)
RECURSIVE SomaValores(_)
SomaValores(lista) ==
    IF lista = <<>> THEN 0
    ELSE GetValor(Head(lista), 0).v + SomaValores(Tail(lista))

\* The handler has no try: the TypeError of a sum over None is a 500
obter_estatisticas ==
    IF \E i \in 1..Len(MOCK_LICITACOES) : ValorLevanta(MOCK_LICITACOES[i])
    THEN Erro500("estatisticas")
    ELSE [endpoint |-> "estatisticas", status |-> 200,
          total_licitacoes |-> Len(MOCK_LICITACOES),
          valor_total_estimado |-> SomaValores(MOCK_LICITACOES),
          distribuicao_por_tipo |-> ContarPor("tipo"),
          distribuicao_por_status |-> ContarPor("status"),
          distribuicao_por_uf |-> ContarPor("uf")]

-----------------------------------------------------------------------------
(* Inputs of the endpoints *)

\* The criteria a query of the mock dataset is made with
CriteriosMock ==
    [tipos : {PyNone, Some({"pregao", "rdc"})},
     status : {PyNone, Some({"aberta"})},
     ufs : {PyNone, Some({"SP", "BA", "MG"})},
     cidades : {PyNone},
     valor_min : {PyNone, Some(500000)},
     valor_max : {PyNone},
     data_abertura_inicio : {PyNone},
     data_abertura_fim : {PyNone, Some(20241015)},
     texto_busca : {PyNone, Some(<<"D","E"," ">>)}]

\* limite and offset: every value that tells apart on the mock dataset
LimitesMock == 1..(Len(MockInicial) + 1)
OffsetsMock == 0..(Len(MockInicial) + 1)

\* ordenar_por: the three sortable fields, another field, "" and None
OrdenarPor ==
    {Some("data_abertura"), Some("valor_estimado"), Some("numero"),
     Some("id"), Some(""), PyNone}

Falhas ==
    {[t |-> "erro_rede"], [t |-> "status", code |-> 500],
     [t |-> "json_invalido"]}

RespostasPncp == Falhas \cup {[t |-> "ok", body |-> b] : b \in PayloadsPncp}

\* two records as the transparency portal sends them
RegT1 == JObj([id |-> JNum(101)])
RegT2 == JObj([id |-> JNum(102)])

\* the body of the transparency portal: the array it documents, and what
\* `isinstance(dados_transparencia, list)` allows for: an object, null
CorposTransparencia ==
    {JArr(<<>>), JArr(<<RegT1>>), JArr(<<RegT1, RegT2>>),
     JObj([message |-> JStr(<<"x">>)]), JNull}

RespostasTransparencia ==
    Falhas \cup {[t |-> "ok", body |-> b] : b \in CorposTransparencia}

RespostasOrgaos ==
    Falhas \cup {[t |-> "ok", body |-> b] :
                    b \in {FallbackPncp,
                           JObj([data |-> JArr(<<JObj([cnpj |-> JNum(1)])>>),
                                 totalElements |-> JNum(1)])}}

-----------------------------------------------------------------------------
(* Requests.  One request is served at a time; a handler that awaits an     *)
(* outbound call is a step up to the call and a step from its answer on.    *)

SemResposta == [t |-> "none"]
SemChamadas == [pncp |-> 0, transparencia |-> 0, orgaos |-> 0]

\* GET /licitacoes: the handler awaits nothing
ObterLicitacoes ==
    /\ pc = "idle"
    /\ \E f \in CriteriosMock, limite \in LimitesMock, offset \in OffsetsMock,
          ordenar_por \in OrdenarPor, ordem_desc \in BOOLEAN :
        /\ req' = [endpoint |-> "licitacoes", f |-> f, limite |-> limite,
                   offset |-> offset, ordenar_por |-> ordenar_por,
                   ordem_desc |-> ordem_desc]
        /\ resp' = obter_licitacoes(f, limite, offset, ordenar_por, ordem_desc)
        /\ MOCK_LICITACOES' = MockAposObterLicitacoes(f, limite, offset,
                                                      ordenar_por, ordem_desc)
    /\ pc' = "done"
    /\ UNCHANGED <<upstream, chamadas, chamada>>

\* POST /licitacoes/buscar
BuscarLicitacoes ==
    /\ pc = "idle"
    /\ \E filtros \in CriteriosMock :
        /\ req' = [endpoint |-> "buscar", f |-> filtros]
        /\ resp' = buscar_licitacoes(filtros)
    /\ pc' = "done"
    /\ UNCHANGED <<MOCK_LICITACOES, upstream, chamadas, chamada>>

\* GET /licitacoes/pncp up to `await client.get`
IniciarPncp ==
    /\ pc = "idle"
    /\ req' = [endpoint |-> "pncp"]
    /\ chamadas' = [chamadas EXCEPT !.pncp = @ + 1]
    /\ pc' = "aguarda_pncp"
    /\ UNCHANGED <<MOCK_LICITACOES, upstream, resp, chamada>>

\* GET /licitacoes/transparencia up to `await client.get`
IniciarTransparencia ==
    /\ pc = "idle"
    /\ req' = [endpoint |-> "transparencia"]
    /\ chamadas' = [chamadas EXCEPT !.transparencia = @ + 1]
    /\ pc' = "aguarda_transparencia"
    /\ UNCHANGED <<MOCK_LICITACOES, upstream, resp, chamada>>

\* GET /orgaos/pncp up to `await client.get`
IniciarOrgaos ==
    /\ pc = "idle"
    /\ req' = [endpoint |-> "orgaos"]
    /\ chamadas' = [chamadas EXCEPT !.orgaos = @ + 1]
    /\ pc' = "aguarda_orgaos"
    /\ UNCHANGED <<MOCK_LICITACOES, upstream, resp, chamada>>

\* GET /licitacoes/consolidado up to its first await, or to its end when no
\* source is enabled
IniciarConsolidado ==
    /\ pc = "idle"
    /\ \E incluir_pncp \in BOOLEAN, incluir_transparencia \in BOOLEAN :
        /\ req' = [endpoint |-> "consolidado", incluir_pncp |-> incluir_pncp,
                   incluir_transparencia |-> incluir_transparencia]
        /\ IF incluir_pncp
           THEN /\ chamadas' = [chamadas EXCEPT !.pncp = @ + 1]
                /\ pc' = "aguarda_pncp"
                /\ UNCHANGED <<resp, MOCK_LICITACOES>>
           ELSE IF incluir_transparencia
           THEN /\ chamadas' = [chamadas EXCEPT !.transparencia = @ + 1]
                /\ pc' = "aguarda_transparencia"
                /\ UNCHANGED <<resp, MOCK_LICITACOES>>
           ELSE /\ chamadas' = chamadas
                /\ pc' = "done"
                /\ resp' = obter_licitacoes_consolidado(
                                FALSE, FALSE, SemResposta, SemResposta)
                /\ MOCK_LICITACOES' = MockAposConsolidado(
                                FALSE, FALSE, SemResposta, SemResposta)
    /\ UNCHANGED <<upstream, chamada>>

\* RespostaPncp with a retry: a failed call is made once more
RespostaPncpComRetry ==
    /\ pc = "aguarda_pncp"
    /\ \E resposta \in RespostasPncp :
        /\ upstream' = [upstream EXCEPT !.pncp = resposta]
        /\ IF resposta.t # "ok" /\ chamadas.pncp < 2
           THEN /\ resp' = resp
                /\ pc' = "aguarda_pncp"
                /\ chamadas' = [chamadas EXCEPT !.pncp = @ + 1]
           ELSE IF req.endpoint = "pncp"
           THEN /\ resp' = obter_licitacoes_pncp(resposta)
                /\ pc' = "done"
                /\ chamadas' = chamadas
           ELSE IF req.incluir_transparencia
           THEN /\ resp' = resp
                /\ pc' = "aguarda_transparencia"
                /\ chamadas' = [chamadas EXCEPT !.transparencia = @ + 1]
           ELSE /\ resp' = obter_licitacoes_consolidado(
                                TRUE, FALSE, resposta, SemResposta)
                /\ pc' = "done"
                /\ chamadas' = chamadas
    /\ UNCHANGED <<MOCK_LICITACOES, req, chamada>>

\* The PNCP call ends and the handler that awaited it goes on: to its
\* response, or to the transparency call of a consolidated request
RespostaPncp ==
    /\ pc = "aguarda_pncp"
    /\ \E resposta \in RespostasPncp :
        /\ upstream' = [upstream EXCEPT !.pncp = resposta]
        /\ IF req.endpoint = "pncp"
           THEN /\ resp' = obter_licitacoes_pncp(resposta)
                /\ pc' = "done"
                /\ UNCHANGED <<chamadas, MOCK_LICITACOES>>
           ELSE IF req.incluir_transparencia
           THEN /\ resp' = resp
                /\ pc' = "aguarda_transparencia"
                /\ chamadas' = [chamadas EXCEPT !.transparencia = @ + 1]
                /\ UNCHANGED MOCK_LICITACOES
           ELSE /\ resp' = obter_licitacoes_consolidado(
                                TRUE, FALSE, resposta, SemResposta)
                /\ MOCK_LICITACOES' = MockAposConsolidado(
                                TRUE, FALSE, resposta, SemResposta)
                /\ pc' = "done"
                /\ chamadas' = chamadas
    /\ UNCHANGED <<req, chamada>>

\* The transparency call ends and the handler that awaited it goes on to
\* its response
RespostaTransparencia ==
    /\ pc = "aguarda_transparencia"
    /\ \E resposta \in RespostasTransparencia :
        /\ upstream' = [upstream EXCEPT !.transparencia = resposta]
        /\ resp' = IF req.endpoint = "transparencia"
                   THEN obter_licitacoes_transparencia(resposta)
                   ELSE obter_licitacoes_consolidado(
                            req.incluir_pncp, TRUE, upstream.pncp, resposta)
        /\ MOCK_LICITACOES' =
                IF req.endpoint = "transparencia"
                THEN MOCK_LICITACOES
                ELSE MockAposConsolidado(
                            req.incluir_pncp, TRUE, upstream.pncp, resposta)
    /\ pc' = "done"
    /\ UNCHANGED <<req, chamadas, chamada>>

\* The call of GET /orgaos/pncp ends
RespostaOrgaos ==
    /\ pc = "aguarda_orgaos"
    /\ \E resposta \in RespostasOrgaos :
        /\ upstream' = [upstream EXCEPT !.pncp = resposta]
        /\ resp' = obter_orgaos_pncp(resposta)
    /\ pc' = "done"
    /\ UNCHANGED <<MOCK_LICITACOES, req, chamadas, chamada>>

\* GET /licitacoes/{licitacao_id}
ObterLicitacaoPorId ==
    /\ pc = "idle"
    /\ \E licitacao_id \in 0..(Len(MockInicial) + 1) :
        /\ req' = [endpoint |-> "por_id", licitacao_id |-> licitacao_id]
        /\ resp' = obter_licitacao_por_id(licitacao_id)
    /\ pc' = "done"
    /\ UNCHANGED <<MOCK_LICITACOES, upstream, chamadas, chamada>>

\* GET /cidades
ObterCidades ==
    /\ pc = "idle"
    /\ \E uf \in {PyNone, Some("SP"), Some("AC")} :
        /\ req' = [endpoint |-> "cidades", uf |-> uf]
        /\ resp' = obter_cidades(uf)
    /\ pc' = "done"
    /\ UNCHANGED <<MOCK_LICITACOES, upstream, chamadas, chamada>>

\* GET /estatisticas
ObterEstatisticas ==
    /\ pc = "idle"
    /\ req' = [endpoint |-> "estatisticas"]
    /\ resp' = obter_estatisticas
    /\ pc' = "done"
    /\ UNCHANGED <<MOCK_LICITACOES, upstream, chamadas, chamada>>

\* The response is sent; the service is ready for the next request
Entregar ==
    /\ pc = "done"
    /\ pc' = "idle"
    /\ req' = [endpoint |-> "none"]
    /\ upstream' = [pncp |-> SemResposta, transparencia |-> SemResposta]
    /\ resp' = [endpoint |-> "none"]
    /\ chamadas' = SemChamadas
    /\ UNCHANGED <<MOCK_LICITACOES, chamada>>

Next ==
    \/ ObterLicitacoes
    \/ BuscarLicitacoes
    \/ IniciarPncp
    \/ IniciarTransparencia
    \/ IniciarOrgaos
    \/ IniciarConsolidado
    \/ RespostaPncp
    \/ RespostaTransparencia
    \/ RespostaOrgaos
    \/ ObterLicitacaoPorId
    \/ ObterCidades
    \/ ObterEstatisticas
    \/ Entregar

Spec == Init /\ [][Next]_vars

-----------------------------------------------------------------------------
(* Properties of the endpoints *)

Respondeu(endpoint) == pc = "done" /\ req.endpoint = endpoint

\* The whole filtered set of the request, before any page is cut
FiltradasTodas ==
    filtrar_licitacoes(MOCK_LICITACOES, req.f, Len(MOCK_LICITACOES) + 1, 0)
        .resultado

\* C2: the records GET /licitacoes returns are the slice
\* [offset, offset + limite) of the whole filtered set sorted by the chosen
\* field and direction.
C2_OrdenaAntesDePaginar ==
    (Respondeu("licitacoes") /\ resp.status = 200
        /\ ~IsNone(req.ordenar_por) /\ req.ordenar_por.v \in CamposOrdenaveis)
    => resp.dados
         = Slice(Sort(FiltradasTodas, req.ordenar_por.v, req.ordem_desc),
                 req.offset, req.offset + req.limite)

\* What the code does instead: the page is cut first and then sorted.
C2_PaginaOrdenada ==
    (Respondeu("licitacoes") /\ resp.status = 200
        /\ ~IsNone(req.ordenar_por) /\ req.ordenar_por.v \in CamposOrdenaveis)
    => resp.dados
         = Sort(Slice(FiltradasTodas, req.offset, req.offset + req.limite),
                req.ordenar_por.v, req.ordem_desc)

\* A network error or timeout, or a status other than 200
Falhou(resposta) == resposta.t \in {"erro_rede", "status"}
\* The same, or a body that is not JSON
NaoObteve(resposta) == resposta.t \in {"erro_rede", "status", "json_invalido"}

\* C5: on every endpoint that calls an upstream source, a network error or
\* timeout or a non-success status of the upstream gives a successful
\* response that carries the empty fallback, never an error status.
C5_FalhaNaoPropagada ==
    /\ (Respondeu("pncp") /\ Falhou(upstream.pncp))
        => /\ resp.status = 200
           /\ resp.dados = <<>> /\ resp.total = JNum(0)
    /\ (Respondeu("transparencia") /\ Falhou(upstream.transparencia))
        => /\ resp.status = 200
           /\ resp.dados = JArr(<<>>) /\ resp.total = 0
    /\ (Respondeu("orgaos") /\ Falhou(upstream.pncp))
        => /\ resp.status = 200
           /\ resp.dados = JObj([data |-> JArr(<<>>),
                                 totalElements |-> JNum(0)])
    /\ (Respondeu("consolidado")
            /\ (req.incluir_pncp \/ req.incluir_transparencia)
            /\ (req.incluir_pncp => Falhou(upstream.pncp))
            /\ (req.incluir_transparencia => Falhou(upstream.transparencia)))
        => /\ resp.status = 200
           /\ resp.dados = <<>> /\ resp.total_consolidado = 0

\* The part of C5 the code keeps: the three endpoints whose outbound call
\* is made inside a try.
C5_ComTry ==
    /\ (Respondeu("pncp") /\ NaoObteve(upstream.pncp))
        => /\ resp.status = 200
           /\ resp.dados = <<>> /\ resp.total = JNum(0)
    /\ (Respondeu("transparencia") /\ NaoObteve(upstream.transparencia))
        => /\ resp.status = 200
           /\ resp.dados = JArr(<<>>) /\ resp.total = 0
    /\ (Respondeu("consolidado")
            /\ (req.incluir_pncp \/ req.incluir_transparencia)
            /\ (req.incluir_pncp => NaoObteve(upstream.pncp))
            /\ (req.incluir_transparencia
                    => NaoObteve(upstream.transparencia)))
        => /\ resp.status = 200
           /\ resp.dados = <<>> /\ resp.total_consolidado = 0

\* The records a source delivered: those the normalizer makes of a PNCP
\* body, the elements of the array the transparency portal answered with;
\* none when the call failed or the body holds no array.
RegistrosPncp(resposta) ==
    IF resposta.t = "ok" THEN normalizar_dados_pncp(resposta.body) ELSE <<>>
RegistrosTransparencia(resposta) ==
    IF resposta.t = "ok" /\ resposta.body.t = "arr"
    THEN resposta.body.v
    ELSE <<>>

SemRegistros == [total |-> JNum(0), recuperados |-> 0]

\* C6: in a consolidated request with both sources enabled the failure of
\* one source does not abort the request and touches that source alone:
\* the response is successful, the failed source reports total 0 and
\* retrieved 0, and the data are exactly the records of the source that
\* succeeded (none when both failed).
C6_FalhaIsolada ==
    (Respondeu("consolidado")
        /\ req.incluir_pncp /\ req.incluir_transparencia
        /\ (NaoObteve(upstream.pncp) \/ NaoObteve(upstream.transparencia)))
    => /\ resp.status = 200
       /\ NaoObteve(upstream.pncp)
            => resp.fontes_consultadas["pncp"] = SemRegistros
       /\ NaoObteve(upstream.transparencia)
            => resp.fontes_consultadas["transparencia"] = SemRegistros
       /\ resp.dados = RegistrosPncp(upstream.pncp)
                        \o RegistrosTransparencia(upstream.transparencia)

\* The transparency portal answered with the array it documents (or failed)
TransparenciaEmLista ==
    upstream.transparencia.t = "ok" => upstream.transparencia.body.t = "arr"

\* C6 as far as the code keeps it: when the source that succeeded is the
\* transparency portal, for each answer of it that is an array.
C6_FalhaIsoladaEmLista ==
    (Respondeu("consolidado")
        /\ req.incluir_pncp /\ req.incluir_transparencia
        /\ (NaoObteve(upstream.pncp) \/ NaoObteve(upstream.transparencia))
        /\ TransparenciaEmLista)
    => /\ resp.status = 200
       /\ NaoObteve(upstream.pncp)
            => resp.fontes_consultadas["pncp"] = SemRegistros
       /\ NaoObteve(upstream.transparencia)
            => resp.fontes_consultadas["transparencia"] = SemRegistros
       /\ resp.dados = RegistrosPncp(upstream.pncp)
                        \o RegistrosTransparencia(upstream.transparencia)

Recuperados(fontes, k) == IF k \in DOMAIN fontes THEN fontes[k].recuperados ELSE 0

\* C9: in every consolidated response of a request with a source enabled
\* the data are the PNCP records followed by the transparency records,
\* none dropped, reordered or merged, and total_consolidado is the sum of
\* the sources' `recuperados`, whatever the upstream bodies are.
C9_Concatenacao ==
    (Respondeu("consolidado") /\ resp.status = 200
        /\ (req.incluir_pncp \/ req.incluir_transparencia))
    => /\ resp.dados
            = (IF req.incluir_pncp
               THEN RegistrosPncp(upstream.pncp) ELSE <<>>)
              \o (IF req.incluir_transparencia
                  THEN RegistrosTransparencia(upstream.transparencia)
                  ELSE <<>>)
       /\ resp.total_consolidado
            = Recuperados(resp.fontes_consultadas, "pncp")
              + Recuperados(resp.fontes_consultadas, "transparencia")
              + Recuperados(resp.fontes_consultadas, "mock")

\* C9 as far as the code keeps it: for each answer of the transparency
\* portal that is an array.
C9_ConcatenacaoEmLista ==
    (Respondeu("consolidado") /\ resp.status = 200
        /\ (req.incluir_pncp \/ req.incluir_transparencia)
        /\ TransparenciaEmLista)
    => /\ resp.dados
            = (IF req.incluir_pncp
               THEN RegistrosPncp(upstream.pncp) ELSE <<>>)
              \o (IF req.incluir_transparencia
                  THEN RegistrosTransparencia(upstream.transparencia)
                  ELSE <<>>)
       /\ resp.total_consolidado
            = Recuperados(resp.fontes_consultadas, "pncp")
              + Recuperados(resp.fontes_consultadas, "transparencia")
              + Recuperados(resp.fontes_consultadas, "mock")

-----------------------------------------------------------------------------
(* Outbound calls of a request *)

UsaPncp ==
    \/ req.endpoint = "pncp"
    \/ req.endpoint = "consolidado" /\ req.incluir_pncp
UsaTransparencia ==
    \/ req.endpoint = "transparencia"
    \/ req.endpoint = "consolidado" /\ req.incluir_transparencia

\* The calls a finished request has made: one to each source it uses
ChamadasDevidas ==
    [pncp |-> IF UsaPncp THEN 1 ELSE 0,
     transparencia |-> IF UsaTransparencia THEN 1 ELSE 0,
     orgaos |-> IF req.endpoint = "orgaos" THEN 1 ELSE 0]

\* C11: there is no retry.  Within one request no source is ever called
\* twice; a finished request has called each source it uses once and each
\* other source not at all; and once a call has failed the request is
\* past it (finished, or in a consolidated request at the next source)
\* with that single call made and the source's empty fallback as result.
C11_SemRetry ==
    /\ \A k \in DOMAIN chamadas : chamadas[k] <= 1
    /\ pc = "done" => chamadas = ChamadasDevidas
    /\ (UsaPncp /\ NaoObteve(upstream.pncp))
        => /\ pc \in {"done", "aguarda_transparencia"}
           /\ chamadas.pncp = 1
           /\ pc = "aguarda_transparencia" => req.incluir_transparencia
    /\ (UsaTransparencia /\ NaoObteve(upstream.transparencia))
        => pc = "done" /\ chamadas.transparencia = 1
    /\ (req.endpoint = "orgaos" /\ NaoObteve(upstream.pncp))
        => pc = "done" /\ chamadas.orgaos = 1
    /\ (Respondeu("pncp") /\ NaoObteve(upstream.pncp))
        => resp.dados = <<>> /\ resp.total = JNum(0)
    /\ (Respondeu("transparencia") /\ NaoObteve(upstream.transparencia))
        => resp.dados = JArr(<<>>)
    /\ (Respondeu("consolidado") /\ resp.status = 200)
        => /\ (req.incluir_pncp /\ NaoObteve(upstream.pncp))
                => resp.fontes_consultadas["pncp"] = SemRegistros
           /\ (req.incluir_transparencia
                    /\ NaoObteve(upstream.transparencia))
                => resp.fontes_consultadas["transparencia"] = SemRegistros

\* C11 witness: a consolidated request whose two calls both failed is
\* finished after one call to each source.
C11_Witness ==
    /\ Respondeu("consolidado")
    /\ Falhou(upstream.pncp) /\ Falhou(upstream.transparencia)
    /\ chamadas = [pncp |-> 1, transparencia |-> 1, orgaos |-> 0]
    /\ resp.status = 200 /\ resp.dados = <<>>

-----------------------------------------------------------------------------
(* The dataset *)

-----------------------------------------------------------------------------
(* The mock fallback of the consolidated endpoint *)

SemFontes ==
    req.endpoint = "consolidado"
        /\ ~req.incluir_pncp /\ ~req.incluir_transparencia

\* C13: a consolidated request with no source enabled makes no outbound
\* call and answers with the whole mock dataset as the one source "mock",
\* whose total and retrieved count are the number of mock records; a
\* consolidated response with a source enabled holds no mock record and no
\* source "mock".
C13_MockSemFontes ==
    /\ SemFontes
        => /\ pc = "done"
           /\ chamadas = SemChamadas
           /\ upstream = [pncp |-> SemResposta, transparencia |-> SemResposta]
           /\ resp.status = 200
           /\ DOMAIN resp.fontes_consultadas = {"mock"}
           /\ resp.fontes_consultadas["mock"]
                = [total |-> JNum(Len(MockInicial)),
                   recuperados |-> Len(MockInicial)]
           /\ resp.dados = MockInicial
           /\ resp.total_consolidado = Len(MockInicial)
    /\ (Respondeu("consolidado") /\ ~SemFontes /\ resp.status = 200)
        => /\ "mock" \notin DOMAIN resp.fontes_consultadas
           /\ \A i \in 1..Len(resp.dados), j \in 1..Len(MockInicial) :
                resp.dados[i] # MockInicial[j]

\* C13 witness: a consolidated request with no source enabled has been
\* answered.
C13_Witness ==
    /\ SemFontes /\ pc = "done"
    /\ Len(resp.dados) = 5

\* The other half of C13: a consolidated request with both sources enabled
\* and both empty-handed has been answered with no record at all.
C13_WitnessComFontes ==
    /\ Respondeu("consolidado") /\ req.incluir_pncp
    /\ req.incluir_transparencia
    /\ resp.status = 200 /\ resp.dados = <<>>

-----------------------------------------------------------------------------
(* Sort fields outside the allow-list *)

ForaDaLista ==
    \/ IsNone(req.ordenar_por)
    \/ req.ordenar_por.v \notin {"data_abertura", "valor_estimado", "numero"}

\* C14: a GET /licitacoes that names a sort field outside the allow-list,
\* or none, is answered without error with the page in the order of the
\* collection, whatever ordem_desc is.
C14_CampoDesconhecido ==
    (Respondeu("licitacoes") /\ ForaDaLista)
    => /\ resp.status = 200
       /\ resp.dados = Slice(FiltradasTodas, req.offset,
                             req.offset + req.limite)

\* C14 witness: a descending sort by "id" has returned the whole dataset
\* in its own order.
C14_Witness ==
    /\ Respondeu("licitacoes") /\ resp.status = 200
    /\ req.ordenar_por = Some("id") /\ req.ordem_desc
    /\ resp.dados = MockInicial

-----------------------------------------------------------------------------
(* Statistics *)

Observados(campo) ==
    {MOCK_LICITACOES[i][campo] : i \in 1..Len(MOCK_LICITACOES)}

RECURSIVE SomaDasContagens(_, _)
SomaDasContagens(d, chaves) ==
    IF chaves = {} THEN 0
    ELSE LET k == CHOOSE x \in chaves : TRUE
         IN d[k] + SomaDasContagens(d, chaves \ {k})

\* A grouped count whose keys are the observed values of the field, none
\* missing and none added, each with a count of at least 1, the counts
\* adding up to the number of records
Distribuicao(d, campo) ==
    /\ DOMAIN d = Observados(campo)
    /\ \A k \in DOMAIN d : d[k] >= 1
    /\ SomaDasContagens(d, DOMAIN d) = Len(MOCK_LICITACOES)

\* C15: GET /estatisticas answers with the number of records, the sum of
\* their estimated values and the counts by type, status and region, each
\* over exactly the observed values and adding up to the number of
\* records; on the mock dataset: 5 records, 18 950 000 in all, 3 aberta,
\* 1 em_andamento, 1 encerrada.
C15_Estatisticas ==
    Respondeu("estatisticas")
    => /\ resp.status = 200
       /\ resp.total_licitacoes = Len(MOCK_LICITACOES)
       /\ Distribuicao(resp.distribuicao_por_tipo, "tipo")
       /\ Distribuicao(resp.distribuicao_por_status, "status")
       /\ Distribuicao(resp.distribuicao_por_uf, "uf")
       /\ resp.total_licitacoes = 5
       /\ resp.valor_total_estimado = 18950000
       /\ resp.valor_total_estimado
            = 150000 + 2500000 + 800000 + 500000 + 15000000
       /\ DOMAIN resp.distribuicao_por_status
            = {"aberta", "em_andamento", "encerrada"}
       /\ resp.distribuicao_por_status["aberta"] = 3
       /\ resp.distribuicao_por_status["em_andamento"] = 1
       /\ resp.distribuicao_por_status["encerrada"] = 1

\* C15 witness: the statistics have been answered, with the five regions
\* of the mock dataset.
C15_Witness ==
    /\ Respondeu("estatisticas") /\ resp.status = 200
    /\ Cardinality(DOMAIN resp.distribuicao_por_uf) = 5
    /\ Cardinality(DOMAIN resp.distribuicao_por_tipo) = 4

-----------------------------------------------------------------------------
(* The canonical records *)

Normalizou == chamada.fn = "normalizar_dados_pncp"

\* C16: no canonical record has both the empty id (0) and the empty
\* number: no record of the mock dataset and no record the normalizer
\* makes of an upstream payload.
C16_IdOuNumero ==
    /\ \A i \in 1..Len(MOCK_LICITACOES) :
            ~(MOCK_LICITACOES[i].id = 0 /\ MOCK_LICITACOES[i].numero = <<>>)
    /\ Normalizou
        => \A i \in 1..Len(chamada.ret) :
                ~(chamada.ret[i].id = JNum(0)
                    /\ chamada.ret[i].numero = JStr(<<>>))

\* The part of C16 the code keeps: the records of the mock dataset, and the
\* records made of items that carry sequencialLicitacao or numeroLicitacao.
C16_ComChave ==
    /\ \A i \in 1..Len(MOCK_LICITACOES) :
            ~(MOCK_LICITACOES[i].id = 0 /\ MOCK_LICITACOES[i].numero = <<>>)
    /\ (Normalizou
            /\ \A k \in 1..Len(ItensDe(chamada.dados_pncp)) :
                    ItensDe(chamada.dados_pncp)[k] # ItemSemChaves)
        => \A i \in 1..Len(chamada.ret) :
                ~(chamada.ret[i].id = JNum(0)
                    /\ chamada.ret[i].numero = JStr(<<>>))

-----------------------------------------------------------------------------
(* A client that pages through a query: GET /licitacoes from offset 0 on,   *)
(* the offset raised by limite for as long as tem_proxima_pagina is true.   *)
(* `chamada` holds the client's loop: the query, the next offset, the       *)
(* records received so far and the number of requests made.                 *)

ClienteComeca ==
    /\ chamada.fn = "none"
    /\ \E f \in CriteriosMock, limite \in LimitesMock,
          ordenar_por \in OrdenarPor, ordem_desc \in BOOLEAN :
        chamada' = [fn |-> "paginar", f |-> f, limite |-> limite,
                    ordenar_por |-> ordenar_por, ordem_desc |-> ordem_desc,
                    offset |-> 0, paginas |-> <<>>, pedidos |-> 0,
                    fim |-> FALSE]
    /\ UNCHANGED <<MOCK_LICITACOES, pc, req, upstream, resp, chamadas>>

\* One request of the client and its answer: the handler awaits nothing
PedirPagina ==
    /\ chamada.fn = "paginar" /\ ~chamada.fim
    /\ LET r == obter_licitacoes(chamada.f, chamada.limite, chamada.offset,
                                 chamada.ordenar_por, chamada.ordem_desc)
       IN /\ req' = [endpoint |-> "licitacoes", f |-> chamada.f,
                     limite |-> chamada.limite, offset |-> chamada.offset,
                     ordenar_por |-> chamada.ordenar_por,
                     ordem_desc |-> chamada.ordem_desc]
          /\ resp' = r
          /\ MOCK_LICITACOES' =
                MockAposObterLicitacoes(chamada.f, chamada.limite,
                                        chamada.offset, chamada.ordenar_por,
                                        chamada.ordem_desc)
          /\ chamada' =
                IF r.status # 200
                THEN [chamada EXCEPT !.pedidos = @ + 1, !.fim = TRUE]
                ELSE [chamada EXCEPT
                        !.pedidos = @ + 1,
                        !.paginas = @ \o r.dados,
                        !.offset = IF r.tem_proxima_pagina
                                   THEN @ + chamada.limite ELSE @,
                        !.fim = ~r.tem_proxima_pagina]
    /\ UNCHANGED <<pc, upstream, chamadas>>

ClienteTermina ==
    /\ chamada.fn = "paginar" /\ chamada.fim
    /\ chamada' = [fn |-> "none"]
    /\ req' = [endpoint |-> "none"]
    /\ resp' = [endpoint |-> "none"]
    /\ UNCHANGED <<MOCK_LICITACOES, pc, upstream, chamadas>>

NextPaginas == ClienteComeca \/ PedirPagina \/ ClienteTermina

SpecPaginas == Init /\ [][NextPaginas]_vars

Paginando == chamada.fn = "paginar"
Recebeu == Paginando /\ chamada.pedidos >= 1
Acabou == Paginando /\ chamada.fim

\* The matches of the client's query
Casadas ==
    filtrar_licitacoes(MOCK_LICITACOES, chamada.f,
                       Len(MOCK_LICITACOES) + 1, 0).resultado

Vezes(lista, x) == Cardinality({i \in 1..Len(lista) : lista[i] = x})

\* C17: the client's loop ends, and when it has ended the pages it
\* received hold each record counted in total exactly once and no other
\* record; in each answer tem_proxima_pagina is true exactly when a match
\* lies beyond the page.  The loop ends because request number k is made
\* at offset (k - 1) * limite and every request after the first at an
\* offset below total: there are at most max(1, ceil(total / limite)).
C17_Paginacao ==
    /\ Recebeu
        => /\ resp.status = 200
           /\ resp.total = Len(Casadas)
           \* the flag: a match lies beyond the page just received
           /\ resp.tem_proxima_pagina
                <=> \E i \in 1..Len(Casadas) : i > req.offset + req.limite
           \* the requests advance by limite and stay within the matches
           /\ req.offset = (chamada.pedidos - 1) * chamada.limite
           /\ chamada.pedidos > 1 => req.offset < Len(Casadas)
           /\ chamada.fim <=> ~resp.tem_proxima_pagina
           /\ ~chamada.fim => chamada.offset = req.offset + chamada.limite
           \* nothing received twice, nothing received that is no match
           /\ \A i \in 1..Len(chamada.paginas) :
                /\ Vezes(chamada.paginas, chamada.paginas[i]) = 1
                /\ Vezes(Casadas, chamada.paginas[i]) = 1
    /\ Acabou
        => /\ Len(chamada.paginas) = resp.total
           /\ \A i \in 1..Len(Casadas) :
                Vezes(chamada.paginas, Casadas[i]) = 1

\* C17 witness: the client has ended after three pages, of 2, 2 and 1
\* records.
C17_Witness ==
    /\ Acabou
    /\ chamada.limite = 2 /\ chamada.pedidos = 3
    /\ Len(chamada.paginas) = 5

====
